---- MODULE Spec2Model ----
(***************************************************************************)
(* Configuration realization of distributed_datalog (instantiate.rs):      *)
(* output, redirect and sink/source deduction as operators, and            *)
(* instantiate/realize as a step-by-step process.                          *)
(***************************************************************************)
EXTENDS Integers, Sequences, FiniteSets, TLC

\* ------------------------------------------------------------------ bounds
\* Logical nodes (Uuid) are 1..NumNodes, ordered as the BTreeMap orders them.
NumNodes == 3
\* Member addresses (Addr) are 1..NumAddrs, ordered as the BTreeMap orders them.
NumAddrs == 3
\* Relation ids (RelId) are 0..MaxRel.
MaxRel == 1
\* File paths are 1..NumPaths, ordered as Path orders them.
NumPaths == 2
\* A node configuration drawn on its own holds at most MaxCfgEntries
\* (relation, directive) entries.
MaxCfgEntries == 3
\* A system configuration drawn for output deduction holds at most MaxEntries
\* (node, relation, directive) entries.
MaxEntries == 2

Nodes == 1..NumNodes
Addrs == 1..NumAddrs
RelIds == 0..MaxRel
Paths == 1..NumPaths

\* ------------------------------------------------------------- schema types
\* RelCfg::Input(rel), RelCfg::Source(Source::File(path)),
\* RelCfg::Sink(Sink::File(path)).
Input(rel) == [tag |-> "Input", arg |-> rel]
Source(path) == [tag |-> "Source", arg |-> path]
Sink(path) == [tag |-> "Sink", arg |-> path]

RelCfgs == {Input(r) : r \in RelIds} \cup {Source(p) : p \in Paths} \cup {Sink(p) : p \in Paths}

\* An empty BTreeMap / HashMap.
EmptyMap == << >>

\* map.insert(k, v): the entry for k is replaced when there is one.
MapInsert(map, k, v) == [x \in (DOMAIN map) \cup {k} |-> IF x = k THEN v ELSE map[x]]

\* map.entry(k).or_default().insert(v) on a map of sets.
EntryInsert(map, k, v) == [x \in (DOMAIN map) \cup {k} |-> IF x = k THEN (IF k \in DOMAIN map THEN map[k] ELSE {}) \cup {v} ELSE map[x]]

\* The first key a BTreeMap iterator yields among keys.
First(keys) == CHOOSE k \in keys : \A other \in keys : k <= other

\* The element a BTreeSet<RelCfg> iterator yields next. The order of RelCfg is
\* derived in schema.rs; no fold below depends on it, because two directives
\* of one set never write the same map entry with different values.
NextRelCfg(rel_cfgs) == CHOOSE rel_cfg \in rel_cfgs : TRUE

\* --------------------------------------------------------- deduce_outputs
\* The filter with the comparison of the addresses inverted.
other_node_inverted(addr, assignment, uuid) == uuid \in DOMAIN assignment /\ assignment[uuid] = addr

\* The filter without the comparison of the addresses.
other_node_nofilter(addr, assignment, uuid) == uuid \in DOMAIN assignment

\* The filter_map of deduce_outputs: a node of sys_cfg is scanned when it has
\* an address in the assignment and that address is not addr.
other_node(addr, assignment, uuid) == uuid \in DOMAIN assignment /\ assignment[uuid] # addr

\* The match without the test input == rel.
outputs_match_any(outputs, rel, other_addr, rel_cfg) == IF rel_cfg.tag = "Input" THEN EntryInsert(outputs, other_addr, rel_cfg.arg) ELSE outputs

\* The match on one directive of a scanned node: an Input of the relation rel
\* is recorded under the scanned node's address.
outputs_match(outputs, rel, other_addr, rel_cfg) ==
    IF rel_cfg.tag = "Input"
    THEN IF rel_cfg.arg = rel THEN EntryInsert(outputs, other_addr, rel_cfg.arg) ELSE outputs
    ELSE outputs

RECURSIVE outputs_rel_cfgs(_, _, _, _)
outputs_rel_cfgs(outputs, rel, other_addr, rel_cfgs) ==
    IF rel_cfgs = {} THEN outputs
    ELSE LET rel_cfg == NextRelCfg(rel_cfgs)
         IN outputs_rel_cfgs(outputs_match(outputs, rel, other_addr, rel_cfg), rel, other_addr, rel_cfgs \ {rel_cfg})

RECURSIVE outputs_values(_, _, _, _, _)
outputs_values(outputs, rel, other_addr, other_cfg, keys) ==
    IF keys = {} THEN outputs
    ELSE LET k == First(keys)
         IN outputs_values(outputs_rel_cfgs(outputs, rel, other_addr, other_cfg[k]), rel, other_addr, other_cfg, keys \ {k})

RECURSIVE outputs_nodes(_, _, _, _, _, _)
outputs_nodes(outputs, rel, addr, sys_cfg, assignment, uuids) ==
    IF uuids = {} THEN outputs
    ELSE LET uuid == First(uuids)
             next == IF other_node(addr, assignment, uuid)
                     THEN outputs_values(outputs, rel, assignment[uuid], sys_cfg[uuid], DOMAIN sys_cfg[uuid])
                     ELSE outputs
         IN outputs_nodes(next, rel, addr, sys_cfg, assignment, uuids \ {uuid})

RECURSIVE outputs_rels(_, _, _, _, _, _)
outputs_rels(outputs, addr, node_cfg, sys_cfg, assignment, rels) ==
    IF rels = {} THEN outputs
    ELSE LET rel == First(rels)
         IN outputs_rels(outputs_nodes(outputs, rel, addr, sys_cfg, assignment, DOMAIN sys_cfg), addr, node_cfg, sys_cfg, assignment, rels \ {rel})

deduce_outputs(addr, node_cfg, sys_cfg, assignment) == outputs_rels(EmptyMap, addr, node_cfg, sys_cfg, assignment, DOMAIN node_cfg)

\* -------------------------------------------------------- deduce_redirects
\* The match keeping the first mapping of an input (or_insert).
redirects_match_first(redirects, rel, rel_cfg) == IF rel_cfg.tag = "Input" /\ rel_cfg.arg \notin DOMAIN redirects THEN MapInsert(redirects, rel_cfg.arg, rel) ELSE redirects

\* The match with the arguments of insert swapped.
redirects_match_swapped(redirects, rel, rel_cfg) == IF rel_cfg.tag = "Input" THEN MapInsert(redirects, rel, rel_cfg.arg) ELSE redirects

\* The match on one directive: Input(input) under rel inserts input -> rel.
redirects_match(redirects, rel, rel_cfg) == IF rel_cfg.tag = "Input" THEN MapInsert(redirects, rel_cfg.arg, rel) ELSE redirects

RECURSIVE redirects_cfg(_, _, _)
redirects_cfg(redirects, rel, cfg) ==
    IF cfg = {} THEN redirects
    ELSE LET rel_cfg == NextRelCfg(cfg)
         IN redirects_cfg(redirects_match(redirects, rel, rel_cfg), rel, cfg \ {rel_cfg})

RECURSIVE redirects_rels(_, _, _)
redirects_rels(redirects, config, rels) ==
    IF rels = {} THEN redirects
    ELSE LET rel == First(rels)
         IN redirects_rels(redirects_cfg(redirects, rel, config[rel]), config, rels \ {rel})

deduce_redirects(config) == redirects_rels(EmptyMap, config, DOMAIN config)

\* ------------------------------------------------- deduce_sinks_or_sources
\* The match without the guards on the mode.
sinks_match_unguarded(map, relid, rel_cfg, sinks) == IF rel_cfg.tag \in {"Sink", "Source"} THEN EntryInsert(map, rel_cfg.arg, relid) ELSE map

\* The match on one directive: a Sink when sinks, a Source when not, adds the
\* relation id to the set of the directive's path.
sinks_match(map, relid, rel_cfg, sinks) ==
    IF rel_cfg.tag = "Sink" /\ sinks THEN EntryInsert(map, rel_cfg.arg, relid)
    ELSE IF rel_cfg.tag = "Source" /\ ~sinks THEN EntryInsert(map, rel_cfg.arg, relid)
    ELSE map

RECURSIVE sinks_cfg(_, _, _, _)
sinks_cfg(map, relid, rel_cfgs, sinks) ==
    IF rel_cfgs = {} THEN map
    ELSE LET rel_cfg == NextRelCfg(rel_cfgs)
         IN sinks_cfg(sinks_match(map, relid, rel_cfg, sinks), relid, rel_cfgs \ {rel_cfg}, sinks)

RECURSIVE sinks_rels(_, _, _, _)
sinks_rels(map, node_cfg, rels, sinks) ==
    IF rels = {} THEN map
    ELSE LET relid == First(rels)
         IN sinks_rels(sinks_cfg(map, relid, node_cfg[relid], sinks), node_cfg, rels \ {relid}, sinks)

deduce_sinks_or_sources(node_cfg, sinks) == sinks_rels(EmptyMap, node_cfg, DOMAIN node_cfg, sinks)

\* ------------------------------------------------------------------- state
VARIABLES
    sys_cfg,      \* SysCfg: logical node -> NodeCfg
    assignment,   \* Assignment: logical node -> address
    addr,         \* the local address
    node_cfg,     \* the NodeCfg a deduction or realize works on
    ret,          \* the value the last deduction call returned
    pc,           \* where instantiate is: "next", a stage of realize, "done"
    iter,         \* the keys assignment.iter() has not yielded yet
    uuid,         \* the logical node being realized (0: none)
    outputs,      \* the Outputs passed to realize
    todo,         \* the keys the loop of the current stage has not visited
    server,       \* the DDlogServer realize owns, or None
    txnmux,       \* the TxnMux realize owns, or None
    accumulator,  \* the Realizations try_fold has collected
    result,       \* what instantiate returned, or None
    effects       \* what the call has done to the outside so far

inputs == <<sys_cfg, assignment, addr>>
process == <<pc, iter, uuid, outputs, todo, server, txnmux, accumulator, result, effects>>
vars == <<sys_cfg, assignment, addr, node_cfg, ret, pc, iter, uuid, outputs, todo, server, txnmux, accumulator, result, effects>>

None == [none |-> TRUE]

\* The process variables before instantiate is called.
Idle ==
    /\ pc = "next"
    /\ iter = {}
    /\ uuid = 0
    /\ outputs = EmptyMap
    /\ todo = {}
    /\ server = None
    /\ txnmux = None
    /\ accumulator = << >>
    /\ result = None
    /\ effects = {}

NoCall == [fn |-> "none", val |-> EmptyMap]

\* ------------------------------------------------------ drawn configurations
\* A relation declared with no directive (1 => btreeset!{}).
NoCfg == [tag |-> "None", arg |-> 0]

\* The subsets of S of at most k elements.
RECURSIVE SubsetsUpTo(_, _)
SubsetsUpTo(S, k) ==
    IF k = 0 THEN {{}}
    ELSE LET smaller == SubsetsUpTo(S, k - 1)
         IN smaller \cup {T \cup {x} : T \in smaller, x \in S}

\* An entry puts one directive (or none) under one relation id.
CfgEntries == [rel : RelIds, cfg : RelCfgs \cup {NoCfg}]

NodeCfgOf(es) == [r \in {e.rel : e \in es} |-> {e.cfg : e \in {x \in es : x.rel = r /\ x.cfg # NoCfg}}]

\* -------------------------------------- redirect and sink/source deduction
InitNodeCfg ==
    /\ \E es \in SubsetsUpTo(CfgEntries, MaxCfgEntries) : node_cfg = NodeCfgOf(es)
    /\ sys_cfg = EmptyMap
    /\ assignment = EmptyMap
    /\ addr = 1
    /\ ret = NoCall
    /\ Idle

call_deduce_redirects ==
    /\ ret' = [fn |-> "deduce_redirects", val |-> deduce_redirects(node_cfg)]
    /\ UNCHANGED <<sys_cfg, assignment, addr, node_cfg, process>>

call_deduce_sinks_or_sources ==
    \E sinks \in BOOLEAN :
        /\ ret' = [fn |-> IF sinks THEN "deduce_sinks" ELSE "deduce_sources", val |-> deduce_sinks_or_sources(node_cfg, sinks)]
        /\ UNCHANGED <<sys_cfg, assignment, addr, node_cfg, process>>

\* C4: for every directive Input(s) declared under relation id r, s is a key of
\* the map deduce_redirects returns, and redirect[s] = r provided no other
\* relation id of the configuration declares Input(s).
C4_RedirectOfSoleInput ==
    ret.fn = "deduce_redirects" =>
        \A r \in DOMAIN node_cfg : \A c \in node_cfg[r] :
            c.tag = "Input" =>
                /\ c.arg \in DOMAIN ret.val
                /\ (\A r2 \in DOMAIN node_cfg \ {r} : c \notin node_cfg[r2]) => ret.val[c.arg] = r

\* C4 as stated: for every directive Input(s) declared under relation id r,
\* redirect[s] = r.
C4_RedirectOfEveryInput ==
    ret.fn = "deduce_redirects" =>
        \A r \in DOMAIN node_cfg : \A c \in node_cfg[r] :
            c.tag = "Input" => (c.arg \in DOMAIN ret.val /\ ret.val[c.arg] = r)

C4_Witness ==
    /\ ret.fn = "deduce_redirects"
    /\ \E r \in DOMAIN node_cfg, r2 \in DOMAIN node_cfg, s \in RelIds :
        /\ r # r2
        /\ Input(s) \in node_cfg[r]
        /\ Input(s) \notin node_cfg[r2]
        /\ node_cfg[r2] # {}
        /\ ret.val[s] = r

\* The relation ids of config that declare Input(s).
Declaring(config, s) == {r \in DOMAIN config : Input(s) \in config[r]}

\* C8: the keys of the redirect map are exactly the s that occur in some
\* Input directive, and redirect[s] is the greatest relation id that declares
\* Input(s): of several declaring relations the one processed last wins.
C8_LastRelationWins ==
    ret.fn = "deduce_redirects" =>
        /\ DOMAIN ret.val = {s \in RelIds : Declaring(node_cfg, s) # {}}
        /\ \A s \in DOMAIN ret.val :
            /\ ret.val[s] \in Declaring(node_cfg, s)
            /\ \A r \in Declaring(node_cfg, s) : r <= ret.val[s]

C8_Witness ==
    /\ ret.fn = "deduce_redirects"
    /\ \E s \in RelIds : \E r1 \in Declaring(node_cfg, s), r2 \in Declaring(node_cfg, s) :
        r1 < r2 /\ ret.val[s] = r2

\* The relation ids of config bound to path by a directive of kind tag.
Bound(config, tag, path) == {r \in DOMAIN config : [tag |-> tag, arg |-> path] \in config[r]}

\* C5: for mode sinks (sources) the keys of the returned map are exactly the
\* paths of the Sink (Source) directives of the configuration, and the set
\* under a path is exactly the set of relation ids carrying that directive;
\* no set is empty.
C5_GroupsExactly ==
    ret.fn \in {"deduce_sinks", "deduce_sources"} =>
        LET tag == IF ret.fn = "deduce_sinks" THEN "Sink" ELSE "Source"
        IN /\ DOMAIN ret.val = {p \in Paths : Bound(node_cfg, tag, p) # {}}
           /\ \A p \in DOMAIN ret.val : ret.val[p] = Bound(node_cfg, tag, p) /\ ret.val[p] # {}

C5_Witness ==
    /\ ret.fn = "deduce_sinks"
    /\ \E p \in DOMAIN ret.val : Cardinality(ret.val[p]) = 2
    /\ \E p \in Paths : Bound(node_cfg, "Source", p) # {}

NextNodeCfg == call_deduce_redirects \/ call_deduce_sinks_or_sources

SpecNodeCfg == InitNodeCfg /\ [][NextNodeCfg]_vars

\* --------------------------------------------------------- output deduction
\* The directives drawn for output deduction: every Input, and one Source and
\* one Sink, which deduce_outputs skips whatever their path.
SysEntries == [node : Nodes, rel : RelIds, cfg : {Input(r) : r \in RelIds} \cup {Source(1), Sink(1), NoCfg}]

SysCfgOf(es) == [n \in {e.node : e \in es} |-> NodeCfgOf({[rel |-> e.rel, cfg |-> e.cfg] : e \in {x \in es : x.node = n}})]

\* Every assignment of some of the logical nodes.
Assignments == UNION {[D -> Addrs] : D \in SUBSET Nodes}

InitOutputs ==
    /\ \E es \in SubsetsUpTo(SysEntries, MaxEntries) : sys_cfg = SysCfgOf(es)
    /\ assignment \in Assignments
    /\ addr = 1
    /\ node_cfg = EmptyMap
    /\ ret = NoCall
    /\ Idle

\* deduce_outputs called for an address and the configuration of a node of
\* the system, as instantiate and the tests call it.
call_deduce_outputs ==
    \E a \in Addrs, n \in DOMAIN sys_cfg :
        /\ addr' = a
        /\ node_cfg' = sys_cfg[n]
        /\ ret' = [fn |-> "deduce_outputs", val |-> deduce_outputs(a, sys_cfg[n], sys_cfg, assignment)]
        /\ UNCHANGED <<sys_cfg, assignment, process>>

NextOutputs == call_deduce_outputs

SpecOutputs == InitOutputs /\ [][NextOutputs]_vars

\* The logical nodes that have a configuration and are assigned to address a.
NodesAt(a) == {n \in DOMAIN sys_cfg \cap DOMAIN assignment : assignment[n] = a}

\* Node n declares Input(r) under some relation id.
DeclaresInput(n, r) == \E k \in DOMAIN sys_cfg[n] : Input(r) \in sys_cfg[n][k]

\* node_cfg is the configuration of a logical node assigned to addr.
OwnCfg == \E n \in NodesAt(addr) : sys_cfg[n] = node_cfg

\* C1: if a node assigned to a2 # a1 declares Input(r) and r is a relation id
\* of the configuration C of a node assigned to a1, deduce_outputs(a1, C, S, A)
\* has the key a2 and r is in the set under a2.
C1_OutputsComplete ==
    (ret.fn = "deduce_outputs" /\ OwnCfg) =>
        \A a2 \in Addrs \ {addr} : \A n2 \in NodesAt(a2) : \A r \in DOMAIN node_cfg :
            DeclaresInput(n2, r) => (a2 \in DOMAIN ret.val /\ r \in ret.val[a2])

C1_Witness ==
    /\ ret.fn = "deduce_outputs"
    /\ OwnCfg
    /\ \E a2 \in Addrs \ {addr} : \E n2 \in NodesAt(a2) : \E r \in DOMAIN node_cfg :
        DeclaresInput(n2, r) /\ r \in ret.val[a2]

\* C2: the map deduce_outputs(a, C, S, A) has no key a, also when a node
\* co-located at a declares Input(r) for a relation r of C.
C2_NoOwnAddress == ret.fn = "deduce_outputs" => addr \notin DOMAIN ret.val

C2_Witness ==
    /\ ret.fn = "deduce_outputs"
    /\ \E n \in NodesAt(addr), m \in NodesAt(addr) :
        /\ n # m
        /\ sys_cfg[n] = node_cfg
        /\ \E r \in DOMAIN node_cfg : DeclaresInput(m, r)
    /\ addr \notin DOMAIN ret.val

\* No assigned node declares Input(r) for a relation id r declared in the
\* configuration of a node assigned to a different address.
NoCrossNodeInput ==
    \A n \in DOMAIN sys_cfg \cap DOMAIN assignment : \A m \in DOMAIN sys_cfg \cap DOMAIN assignment :
        assignment[m] # assignment[n] => \A r \in DOMAIN sys_cfg[m] : ~DeclaresInput(n, r)

\* C3: with no cross-node Input reference, deduce_outputs returns the empty
\* map for every address and every node configuration assigned to it.
C3_EmptyWithoutCrossInput ==
    (ret.fn = "deduce_outputs" /\ OwnCfg /\ NoCrossNodeInput) => ret.val = EmptyMap

C3_Witness ==
    /\ ret.fn = "deduce_outputs"
    /\ OwnCfg
    /\ NoCrossNodeInput
    /\ \E n \in DOMAIN sys_cfg \cap DOMAIN assignment : assignment[n] # addr /\ \E r \in RelIds : DeclaresInput(n, r)
    /\ ret.val = EmptyMap

\* The relation ids of node_cfg that some node assigned to b declares as Input.
Requested(b) == {r \in DOMAIN node_cfg : \E n \in NodesAt(b) : DeclaresInput(n, r)}

\* C10: every entry (b, R) of deduce_outputs(a, C, S, A) has b # a and R
\* non-empty, and R is the union over the nodes assigned to b (and having a
\* configuration in S) of the relation ids of C they declare as Input; nodes
\* without an entry in A contribute nothing.
C10_OutputsSoundUnion ==
    ret.fn = "deduce_outputs" =>
        \A b \in DOMAIN ret.val : b # addr /\ ret.val[b] # {} /\ ret.val[b] = Requested(b)

C10_Witness ==
    /\ ret.fn = "deduce_outputs"
    /\ \E b \in DOMAIN ret.val : \E n \in NodesAt(b), m \in NodesAt(b) : \E r \in ret.val[b] :
        n # m /\ DeclaresInput(n, r) /\ DeclaresInput(m, r)

\* ------------------------------------------------------------- instantiate
\* The filter without the comparison with the local address.
selected_any_addr(cfgs, local, asg) == {u \in DOMAIN asg : u \in DOMAIN cfgs}

\* The filter_map of instantiate: the keys of the assignment that are
\* assigned to addr and have a configuration in sys_cfg.
selected(cfgs, local, asg) == {u \in DOMAIN asg : asg[u] = local /\ u \in DOMAIN cfgs}

\* The closure skipping a node whose realize failed.
fold_step_swallow(acc, realized) == IF realized.ok THEN [ok |-> TRUE, val |-> Append(acc, realized.val)] ELSE [ok |-> TRUE, val |-> acc]

\* The closure of try_fold applied to what realize returned: a Realization is
\* pushed; on an error the accumulator is dropped with the closure and the
\* error is the result.
fold_step(acc, realized) ==
    IF realized.ok
    THEN [ok |-> TRUE, val |-> Append(acc, realized.val)]
    ELSE [ok |-> FALSE, err |-> realized.err]

\* The stages with add_file_sinks called before add_tcp_senders.
stage_after_sinks_first(stage) ==
    CASE stage = "create_server" -> "add_file_sinks"
      [] stage = "add_file_sinks" -> "add_tcp_senders"
      [] stage = "add_tcp_senders" -> "create_txn_mux"
      [] stage = "create_txn_mux" -> "add_tcp_receiver"
      [] stage = "add_tcp_receiver" -> "add_file_sources"
      [] stage = "add_file_sources" -> "return"

\* The order of the stages of realize.
stage_after(stage) ==
    CASE stage = "create_server" -> "add_tcp_senders"
      [] stage = "add_tcp_senders" -> "add_file_sinks"
      [] stage = "add_file_sinks" -> "create_txn_mux"
      [] stage = "create_txn_mux" -> "add_tcp_receiver"
      [] stage = "add_tcp_receiver" -> "add_file_sources"
      [] stage = "add_file_sources" -> "return"

\* The keys the loop of a stage visits.
stage_todo(stage, cfg, outs) ==
    CASE stage = "add_tcp_senders" -> DOMAIN outs
      [] stage = "add_file_sinks" -> DOMAIN deduce_sinks_or_sources(cfg, TRUE)
      [] stage = "add_file_sources" -> DOMAIN deduce_sinks_or_sources(cfg, FALSE)
      [] OTHER -> {}

\* A call on a collaborator that succeeded for the node being realized: "run"
\* (P::run), "connect" (TcpSender::with_retry), "create" (File::create),
\* "bind" (TcpReceiver::new), "source" (FileSource::new).
Event(kind, arg) == [kind |-> kind, uuid |-> uuid, arg |-> arg]

\* The Err of a failed call, with the stage and the node it failed in.
Error(what, arg) == [ok |-> FALSE, err |-> [stage |-> pc, what |-> what, uuid |-> uuid, arg |-> arg]]

\* realize returned to the closure of try_fold, its locals (server, txnmux)
\* moved out or dropped.
Return(realized) ==
    LET folded == fold_step(accumulator, realized)
    IN /\ server' = None
       /\ txnmux' = None
       /\ todo' = {}
       /\ IF folded.ok
          THEN pc' = "next" /\ accumulator' = folded.val /\ result' = result
          ELSE pc' = "done" /\ accumulator' = << >> /\ result' = folded

\* The stage pc is over: realize enters the next stage or returns.
Advance(mux) ==
    LET stage == stage_after(pc)
    IN IF stage = "return"
       THEN Return([ok |-> TRUE, val |-> [uuid |-> uuid, txnmux |-> mux]])
       ELSE pc' = stage /\ todo' = stage_todo(stage, node_cfg, outputs) /\ UNCHANGED <<accumulator, result>>

\* Iterator::try_fold takes the next selected node, deduces its outputs and
\* calls realize; with no node left it returns the accumulator.
fold_next ==
    /\ pc = "next"
    /\ LET sel == selected(sys_cfg, addr, assignment) \cap iter
       IN IF sel = {}
          THEN /\ pc' = "done"
               /\ result' = [ok |-> TRUE, val |-> accumulator]
               /\ accumulator' = << >>
               /\ iter' = {}
               /\ UNCHANGED <<uuid, node_cfg, outputs, todo>>
          ELSE LET u == First(sel)
               IN /\ uuid' = u
                  /\ node_cfg' = sys_cfg[u]
                  /\ outputs' = deduce_outputs(addr, sys_cfg[u], sys_cfg, assignment)
                  /\ iter' = {k \in iter : k > u}
                  /\ pc' = "create_server"
                  /\ todo' = {}
                  /\ UNCHANGED <<accumulator, result>>
    /\ UNCHANGED <<inputs, ret, server, txnmux, effects>>

\* create_server: the redirects are deduced, the program is started.
create_server ==
    /\ pc = "create_server"
    /\ \/ /\ server' = [redirects |-> deduce_redirects(node_cfg), streams |-> {}]
          /\ effects' = effects \cup {Event("run", 0)}
          /\ txnmux' = txnmux
          /\ Advance(None)
       \/ /\ Return(Error("run", 0))
          /\ effects' = effects
    /\ UNCHANGED <<inputs, ret, node_cfg, iter, uuid, outputs>>

\* One iteration of add_tcp_senders: connect to the next address, subscribe
\* the sender to a stream of its relation ids.
add_tcp_sender ==
    /\ pc = "add_tcp_senders"
    /\ todo # {}
    /\ LET peer == First(todo)
       IN \/ /\ Return(Error("connect", peer))
             /\ effects' = effects
          \/ /\ Return(Error("subscribe", peer))
             /\ effects' = effects \cup {Event("connect", peer)}
          \/ /\ server' = [server EXCEPT !.streams = @ \cup {[kind |-> "tcp", arg |-> peer, rels |-> outputs[peer]]}]
             /\ effects' = effects \cup {Event("connect", peer)}
             /\ todo' = todo \ {peer}
             /\ UNCHANGED <<pc, txnmux, accumulator, result>>
    /\ UNCHANGED <<inputs, ret, node_cfg, iter, uuid, outputs>>

\* One iteration of add_file_sinks: create the file, subscribe the sink to a
\* stream of the relation ids bound to the path.
add_file_sink ==
    /\ pc = "add_file_sinks"
    /\ todo # {}
    /\ LET path == First(todo)
       IN \/ /\ Return(Error("create", path))
             /\ effects' = effects
          \/ /\ Return(Error("subscribe", path))
             /\ effects' = effects \cup {Event("create", path)}
          \/ /\ server' = [server EXCEPT !.streams = @ \cup {[kind |-> "file", arg |-> path, rels |-> deduce_sinks_or_sources(node_cfg, TRUE)[path]]}]
             /\ effects' = effects \cup {Event("create", path)}
             /\ todo' = todo \ {path}
             /\ UNCHANGED <<pc, txnmux, accumulator, result>>
    /\ UNCHANGED <<inputs, ret, node_cfg, iter, uuid, outputs>>

\* try_for_each has visited every key: the stage returns Ok(()).
stage_end ==
    /\ pc \in {"add_tcp_senders", "add_file_sinks"}
    /\ todo = {}
    /\ Advance(None)
    /\ UNCHANGED <<inputs, ret, node_cfg, iter, uuid, outputs, server, txnmux, effects>>

\* create_txn_mux: the server moves into a new TxnMux.
create_txn_mux ==
    /\ pc = "create_txn_mux"
    /\ \/ /\ txnmux' = [server |-> server, observables |-> {}]
          /\ server' = None
          /\ Advance(None)
       \/ Return(Error("subscribe", 0))
    /\ UNCHANGED <<inputs, ret, node_cfg, iter, uuid, outputs, effects>>

\* add_tcp_receiver: a TcpReceiver bound to the local address is registered
\* with the TxnMux. Whether the bind succeeds is the operating system's
\* answer (also for a second receiver on the address of a co-located node).
add_tcp_receiver ==
    /\ pc = "add_tcp_receiver"
    /\ \/ /\ Return(Error("bind", addr))
          /\ effects' = effects
       \/ /\ Return(Error("add_observable", addr))
          /\ effects' = effects \cup {Event("bind", addr)}
       \/ /\ txnmux' = [txnmux EXCEPT !.observables = @ \cup {[kind |-> "receiver", arg |-> addr]}]
          /\ effects' = effects \cup {Event("bind", addr)}
          /\ server' = server
          /\ Advance(None)
    /\ UNCHANGED <<inputs, ret, node_cfg, iter, uuid, outputs>>

\* One iteration of add_file_sources: a file source is registered with the
\* TxnMux.
add_file_source ==
    /\ pc = "add_file_sources"
    /\ todo # {}
    /\ LET path == First(todo)
       IN \/ /\ Return(Error("add_observable", path))
             /\ effects' = effects \cup {Event("source", path)}
          \/ /\ txnmux' = [txnmux EXCEPT !.observables = @ \cup {[kind |-> "source", arg |-> path]}]
             /\ effects' = effects \cup {Event("source", path)}
             /\ todo' = todo \ {path}
             /\ UNCHANGED <<pc, server, accumulator, result>>
    /\ UNCHANGED <<inputs, ret, node_cfg, iter, uuid, outputs>>

\* add_file_sources returned Ok(()): realize returns the Realization.
realize_ok ==
    /\ pc = "add_file_sources"
    /\ todo = {}
    /\ Advance(txnmux)
    /\ UNCHANGED <<inputs, ret, node_cfg, iter, uuid, outputs, effects>>

\* The system configurations instantiate is called with hold at most
\* MaxEntries entries, of any directive.
InstEntries == [node : Nodes, rel : RelIds, cfg : RelCfgs \cup {NoCfg}]

Init ==
    /\ \E es \in SubsetsUpTo(InstEntries, MaxEntries) : sys_cfg = SysCfgOf(es)
    /\ assignment \in Assignments
    /\ addr \in Addrs
    /\ node_cfg = EmptyMap
    /\ ret = NoCall
    /\ pc = "next"
    /\ iter = DOMAIN assignment
    /\ uuid = 0
    /\ outputs = EmptyMap
    /\ todo = {}
    /\ server = None
    /\ txnmux = None
    /\ accumulator = << >>
    /\ result = None
    /\ effects = {}

Next ==
    \/ fold_next
    \/ create_server
    \/ add_tcp_sender
    \/ add_file_sink
    \/ stage_end
    \/ create_txn_mux
    \/ add_tcp_receiver
    \/ add_file_source
    \/ realize_ok

Spec == Init /\ [][Next]_vars

\* The logical nodes the assignment maps to the local address, and those of
\* them that have a configuration.
Assigned == {n \in DOMAIN assignment : assignment[n] = addr}

Configured == Assigned \cap DOMAIN sys_cfg

Returned == result # None /\ pc = "done"

Failed == Returned /\ ~result.ok

\* The logical nodes of the Realizations in a collection.
UuidsOf(realizations) == {realizations[i].uuid : i \in DOMAIN realizations}

\* The arguments of the events of one kind the call has made for node u.
Made(kind, u) == {e.arg : e \in {x \in effects : x.kind = kind /\ x.uuid = u}}

OutputsOf(u) == deduce_outputs(addr, sys_cfg[u], sys_cfg, assignment)

SinksOf(u) == deduce_sinks_or_sources(sys_cfg[u], TRUE)

SourcesOf(u) == deduce_sinks_or_sources(sys_cfg[u], FALSE)

\* C6: when instantiate succeeds it returns one Realization for each logical
\* node assigned to the local address that has a configuration in S, and none
\* for any other node; with no node assigned to the address it returns an
\* empty collection without error and performs no realization step.
C6_SelectsConfiguredAssigned ==
    Returned =>
        /\ result.ok => (UuidsOf(result.val) = Configured /\ Len(result.val) = Cardinality(Configured))
        /\ Assigned = {} => (result.ok /\ result.val = << >> /\ effects = {})

\* C6 as stated: one Realization for each logical node n with A[n] = a,
\* whatever S contains.
C6_SelectsAssigned ==
    (Returned /\ result.ok) => (UuidsOf(result.val) = Assigned /\ Len(result.val) = Cardinality(Assigned))

C6_Witness ==
    /\ Returned
    /\ result.ok
    /\ Len(result.val) = 2
    /\ UuidsOf(result.val) = Assigned
    /\ \E n \in DOMAIN assignment : assignment[n] # addr

StageOf(kind) ==
    CASE kind = "run" -> "create_server"
      [] kind = "connect" -> "add_tcp_senders"
      [] kind = "create" -> "add_file_sinks"
      [] kind = "bind" -> "add_tcp_receiver"
      [] kind = "source" -> "add_file_sources"

\* The position of a stage in the order the claim gives.
Rank(stage) ==
    CASE stage = "create_server" -> 1
      [] stage = "add_tcp_senders" -> 2
      [] stage = "add_file_sinks" -> 3
      [] stage = "create_txn_mux" -> 4
      [] stage = "add_tcp_receiver" -> 5
      [] stage = "add_file_sources" -> 6

\* Everything the stages before the one of event e do for node e.uuid has
\* been done.
EarlierStagesDone(e) ==
    LET u == e.uuid
        rank == Rank(StageOf(e.kind))
    IN /\ rank > 1 => Made("run", u) # {}
       /\ rank > 2 => Made("connect", u) = DOMAIN OutputsOf(u)
       /\ rank > 3 => Made("create", u) = DOMAIN SinksOf(u)
       /\ rank > 5 => Made("bind", u) = {addr}

\* A Realization holds one sender stream per entry of the output map, one
\* file sink stream per sink path, the receiver and one source per source
\* path, and the redirects of its configuration.
Complete(realization) ==
    LET u == realization.uuid
        srv == realization.txnmux.server
    IN /\ srv.redirects = deduce_redirects(sys_cfg[u])
       /\ srv.streams = {[kind |-> "tcp", arg |-> b, rels |-> OutputsOf(u)[b]] : b \in DOMAIN OutputsOf(u)}
                           \cup {[kind |-> "file", arg |-> p, rels |-> SinksOf(u)[p]] : p \in DOMAIN SinksOf(u)}
       /\ realization.txnmux.observables = {[kind |-> "receiver", arg |-> addr]}
                           \cup {[kind |-> "source", arg |-> p] : p \in DOMAIN SourcesOf(u)}

====
